---- MODULE Spec2Model ----
(***************************************************************************)
(* A model of the vectori pipeline (JoniBach/vectori): the colour          *)
(* classifier, the SVG merge and outline rewrites, and the asynchronous    *)
(* vectori() run with its two trace batches.                               *)
(*                                                                         *)
(* Three variants of the pipeline are in the sources:                      *)
(*   "index"   src/unnamed/part_000 lines 1-535                            *)
(*   "lib"     src/unnamed/part_000 lines 537-964 (src/lib/vectori.js)     *)
(*   "publish" src/publish.js (the node-vibrant palette)                   *)
(***************************************************************************)
EXTENDS Integers, Sequences, FiniteSets, TLC

VARIABLES
    variant,        \* which copy of the pipeline is running
    color,          \* findClosestColor: argument color
    palette,        \* findClosestColor / processImage: argument palette
    closest,        \* findClosestColor: outcome [status, value]
    image,          \* processImage: the bitmap before the scan (pixels)
    processed,      \* processImage: outcome [status, value]
    svgs,           \* mergeSvgs / createSvgOutline: the argument (SVG texts)
    merged,         \* mergeSvgs: outcome, the merged SVG text
    frame,          \* mergeSvgs: minX, minY, finalWidth, finalHeight at return
    outlined,       \* createSvgOutline(svgs): outcome
    outlinedTwice,  \* createSvgOutline(outlined): outcome
    groups,         \* mergeSvgs([mergeSvgs(A), mergeSvgs(B)]): the arrays <<A, B>>
    nested,         \* mergeSvgs([mergeSvgs(A), mergeSvgs(B)]): outcome
    file,           \* vectori: the argument
    pc,             \* vectori: where the async function stands
    locals,         \* vectori: its const bindings, by name, once assigned
    calls,          \* trace() calls issued: <<batch, i>> -> [buffer, color, state]
    batches,        \* the Promise.all of each traceImagesToSvgs call
    outcome,        \* the promise vectori returned: [status, value]
    answer,         \* the last accessor call on the returned object
    op,             \* the bitmap function called on its own, "none" before
    bitmap,         \* its bitmap argument [width, height, data]
    targets,        \* its palette argument: colours, or grey hex strings
    quantized,      \* processImage(bitmap, targets): outcome
    layers,         \* separateColors / separateGreyscaleColors: outcome
    scanned         \* extractAllColors / extractGreyscalePalette: outcome

classifyVars == <<color, palette, closest, image, processed>>
svgVars == <<svgs, merged, frame, outlined, outlinedTwice, groups, nested>>
runVars == <<file, pc, locals, calls, batches, outcome, answer>>
bitmapVars == <<op, bitmap, targets, quantized, layers, scanned>>
vars == <<variant, classifyVars, svgVars, runVars, bitmapVars>>

(***************************************************************************)
(* Bounds of the model.                                                    *)
(***************************************************************************)
MaxPalette == 2     \* longest palette handed to the classifier
MaxPixels == 2      \* pixels of a bitmap handed to processImage
MaxFrags == 3       \* fragments handed to mergeSvgs / createSvgOutline
MaxLayers == 2      \* longest clustered palette of a vectori run

Variants == {"index", "lib", "publish"}

\* channel values of the colours that are classified
PixelChannels == {0, 100, 255}
\* channel values of palette entries
PaletteChannels == {0, 255}

Colors == PixelChannels \X PixelChannels \X PixelChannels
PaletteColors == PaletteChannels \X PaletteChannels \X PaletteChannels
\* the bitmaps' pixels
PixelSamples == {<<0, 0, 0>>, <<100, 0, 255>>, <<255, 255, 255>>}

SeqsUpTo(S, n) == UNION {[1..k -> S] : k \in 0..n}

\* Body applied to the value of v, v evaluated once
With(v, Body(_)) == CHOOSE r \in {Body(x) : x \in {v}} : TRUE

Palettes == SeqsUpTo(PaletteColors, MaxPalette)
Bitmaps == SeqsUpTo(PixelSamples, MaxPixels) \ {<<>>}

(***************************************************************************)
(* Outcomes of a call: a value, or the exception it threw.                 *)
(***************************************************************************)
NotCalled == [status |-> "none", value |-> <<>>]
Returned(v) == [status |-> "ok", value |-> v]
Threw(e) == [status |-> e, value |-> <<>>]

(***************************************************************************)
(* computeEuclideanDistance(a, b) = sqrt(sum (a[i]-b[i])^2).  The model    *)
(* keeps the radicand: on 0..3*255^2 the double square root is strictly    *)
(* increasing, so `<` on the roots is `<` on the radicands.                *)
(***************************************************************************)
computeEuclideanDistance(a, b) ==
    (a[1] - b[1]) * (a[1] - b[1])
    + (a[2] - b[2]) * (a[2] - b[2])
    + (a[3] - b[3]) * (a[3] - b[3])

\* a reduce that replaces prev also when the distances are equal (<=)
RECURSIVE ReduceClosest_LastWins(_, _, _, _)
ReduceClosest_LastWins(c, P, prev, i) ==
    IF i > Len(P) THEN prev
    ELSE ReduceClosest_LastWins(c, P,
            IF computeEuclideanDistance(P[i], c) <= computeEuclideanDistance(prev, c)
            THEN P[i] ELSE prev,
            i + 1)

\* Array.prototype.reduce without an initial value, on a non-empty array:
\* prev starts as P[1], the callback runs for P[2..].
RECURSIVE ReduceClosest(_, _, _, _)
ReduceClosest(c, P, prev, i) ==
    IF i > Len(P) THEN prev
    ELSE ReduceClosest(c, P,
            IF computeEuclideanDistance(P[i], c) < computeEuclideanDistance(prev, c)
            THEN P[i] ELSE prev,
            i + 1)

\* a reduce that keeps the farther entry (the comparison reversed)
RECURSIVE ReduceFarthest(_, _, _, _)
ReduceFarthest(c, P, prev, i) ==
    IF i > Len(P) THEN prev
    ELSE ReduceFarthest(c, P,
            IF computeEuclideanDistance(P[i], c) > computeEuclideanDistance(prev, c)
            THEN P[i] ELSE prev,
            i + 1)

findClosestColor_Farthest(v, c, P) ==
    IF Len(P) = 0
    THEN (IF v = "publish" THEN Threw("TypeError") ELSE Returned(c))
    ELSE Returned(ReduceFarthest(c, P, P[1], 2))

\* findClosestColor of variant v.  "index" and "lib" return color for an
\* empty palette; "publish" has no such guard and reduce() of an empty array
\* without an initial value throws a TypeError.
findClosestColor(v, c, P) ==
    IF Len(P) = 0
    THEN (IF v = "publish" THEN Threw("TypeError") ELSE Returned(c))
    ELSE Returned(ReduceClosest(c, P, P[1], 2))

\* image.scan(...) of processImage: every pixel is replaced by its closest
\* palette colour, in scan order; an exception of the callback ends the scan.
RECURSIVE ScanClosest(_, _, _, _)
ScanClosest(v, img, P, i) ==
    IF i > Len(img) THEN Returned(img)
    ELSE LET r == findClosestColor(v, img[i], P)
         IN  IF r.status # "ok" THEN Threw(r.status)
             ELSE ScanClosest(v, [img EXCEPT ![i] = r.value], P, i + 1)

processImage(v, img, P) == ScanClosest(v, img, P, 1)

(***************************************************************************)
(* The classifier called on its own.                                       *)
(***************************************************************************)
IdleClassify ==
    /\ color = <<0, 0, 0>>
    /\ palette = <<>>
    /\ closest = NotCalled
    /\ image = <<>>
    /\ processed = NotCalled

IdleSvg ==
    /\ svgs = <<>>
    /\ merged = NotCalled
    /\ frame = NotCalled
    /\ outlined = NotCalled
    /\ outlinedTwice = NotCalled
    /\ groups = <<>>
    /\ nested = NotCalled

\* vectori not called
IdleRun ==
    /\ file = [kind |-> "none", bytes |-> "none"]
    /\ pc = "idle"
    /\ locals = <<>>
    /\ calls = <<>>
    /\ batches = <<>>
    /\ outcome = NotCalled
    /\ answer = [accessor |-> "none", arg |-> "none", result |-> NotCalled,
                 again |-> FALSE]

\* no bitmap function called on its own
IdleBitmap ==
    /\ op = "none"
    /\ bitmap = [width |-> 0, height |-> 0, data |-> <<>>]
    /\ targets = <<>>
    /\ quantized = NotCalled
    /\ layers = NotCalled
    /\ scanned = NotCalled

InitClassify ==
    /\ variant \in Variants
    /\ IdleClassify
    /\ IdleSvg
    /\ IdleRun
    /\ IdleBitmap

CallFindClosestColor ==
    \E c \in Colors, P \in Palettes :
        /\ closest = NotCalled /\ processed = NotCalled
        /\ color' = c
        /\ palette' = P
        /\ closest' = findClosestColor(variant, c, P)
        /\ image' = <<>>
        /\ processed' = NotCalled
        /\ UNCHANGED <<variant, bitmapVars, svgVars, runVars>>

CallProcessImage ==
    \E img \in Bitmaps, P \in Palettes :
        /\ closest = NotCalled /\ processed = NotCalled
        /\ image' = img
        /\ palette' = P
        /\ processed' = processImage(variant, img, P)
        /\ closest' = NotCalled
        /\ UNCHANGED <<variant, bitmapVars, color, svgVars, runVars>>

NextClassify == CallFindClosestColor \/ CallProcessImage

SpecClassify == InitClassify /\ [][NextClassify]_vars

(***************************************************************************)
(* C1: for a non-empty palette, findClosestColor returns an entry of the   *)
(* palette, and no entry is strictly closer to the colour than it.         *)
(***************************************************************************)
C1_ClosestIsNearestMember ==
    (closest # NotCalled /\ Len(palette) > 0) =>
        /\ closest.status = "ok"
        /\ \E i \in 1..Len(palette) : palette[i] = closest.value
        /\ \A j \in 1..Len(palette) :
              ~ ((palette[j][1] - color[1]) * (palette[j][1] - color[1])
                 + (palette[j][2] - color[2]) * (palette[j][2] - color[2])
                 + (palette[j][3] - color[3]) * (palette[j][3] - color[3])
                 < (closest.value[1] - color[1]) * (closest.value[1] - color[1])
                 + (closest.value[2] - color[2]) * (closest.value[2] - color[2])
                 + (closest.value[3] - color[3]) * (closest.value[3] - color[3]))

\* a call where the later of two entries is the nearer one and is returned
C1_Witness ==
    /\ closest.status = "ok"
    /\ Len(palette) = 2
    /\ palette[1] # palette[2]
    /\ closest.value = palette[2]
    /\ color \notin {palette[1], palette[2]}

(***************************************************************************)
(* C2: in every variant findClosestColor(c, []) returns c and throws       *)
(* nothing, so processImage with an empty palette returns the bitmap with  *)
(* every pixel as it was.                                                  *)
(***************************************************************************)
C2_EmptyPaletteIsIdentity ==
    /\ (closest # NotCalled /\ palette = <<>>) => closest = Returned(color)
    /\ (processed # NotCalled /\ palette = <<>>) => processed = Returned(image)

(***************************************************************************)
(* JavaScript numbers: the integers, Infinity, -Infinity and NaN.          *)
(***************************************************************************)
Num(n) == [k |-> "num", n |-> n]
PosInf == [k |-> "inf", n |-> 1]
NegInf == [k |-> "inf", n |-> -1]
NaN == [k |-> "nan", n |-> 0]

IsNum(a) == a.k = "num"

\* a < b of JavaScript: false when either side is NaN
JsLt(a, b) ==
    /\ a.k # "nan" /\ b.k # "nan"
    /\ \/ a.k = "num" /\ b.k = "num" /\ a.n < b.n
       \/ a = NegInf /\ b # NegInf
       \/ b = PosInf /\ a # PosInf

\* a <= b of JavaScript
JsLeq(a, b) == a.k # "nan" /\ b.k # "nan" /\ (a = b \/ JsLt(a, b))

\* Math.min, Math.max: NaN when either argument is NaN
MathMin(a, b) ==
    IF a.k = "nan" \/ b.k = "nan" THEN NaN ELSE IF JsLt(b, a) THEN b ELSE a
MathMax(a, b) ==
    IF a.k = "nan" \/ b.k = "nan" THEN NaN ELSE IF JsLt(a, b) THEN b ELSE a

JsNeg(a) == IF a.k = "nan" THEN NaN ELSE [k |-> a.k, n |-> 0 - a.n]

\* a + b and a - b
JsAdd(a, b) ==
    IF a.k = "nan" \/ b.k = "nan" THEN NaN
    ELSE IF a.k = "inf" /\ b.k = "inf" THEN (IF a.n = b.n THEN a ELSE NaN)
    ELSE IF a.k = "inf" THEN a
    ELSE IF b.k = "inf" THEN b
    ELSE Num(a.n + b.n)
JsSub(a, b) == JsAdd(a, JsNeg(b))

(***************************************************************************)
(* Strings are sequences of characters.  "Infinity", "NaN", "none",        *)
(* "black" and the other words stand for their letters: none of them is a  *)
(* digit, white space, "." or "-".                                         *)
(***************************************************************************)
Digits == {"0", "1", "2", "3", "4", "5", "6", "7", "8", "9"}
WhiteSpace == {" ", "\t", "\n"}
\* the classes [\d\s.-] and [\d.] of the regular expressions of mergeSvgs
ViewBoxClass == Digits \cup WhiteSpace \cup {".", "-"}
LengthClass == Digits \cup {"."}

DigitValue(ch) ==
    CASE ch = "0" -> 0 [] ch = "1" -> 1 [] ch = "2" -> 2 [] ch = "3" -> 3
      [] ch = "4" -> 4 [] ch = "5" -> 5 [] ch = "6" -> 6 [] ch = "7" -> 7
      [] ch = "8" -> 8 [] ch = "9" -> 9

DigitChar(d) == <<"0", "1", "2", "3", "4", "5", "6", "7", "8", "9">>[d + 1]

AllIn(str, class) == \A i \in 1..Len(str) : str[i] \in class

\* String.prototype.split(sep) for a one-character separator
RECURSIVE SplitFrom(_, _, _, _, _)
SplitFrom(str, sep, i, cur, out) ==
    IF i > Len(str) THEN Append(out, cur)
    ELSE IF str[i] = sep THEN SplitFrom(str, sep, i + 1, <<>>, Append(out, cur))
    ELSE SplitFrom(str, sep, i + 1, Append(cur, str[i]), out)
Split(str, sep) == SplitFrom(str, sep, 1, <<>>, <<>>)

\* parseFloat: leading white space is skipped, then an optional sign and the
\* longest run of digits; NaN when no digit is there.  (The sampled texts
\* hold no fraction and no exponent.)
RECURSIVE SkipWhiteSpace(_, _)
SkipWhiteSpace(str, i) ==
    IF i <= Len(str) /\ str[i] \in WhiteSpace THEN SkipWhiteSpace(str, i + 1) ELSE i

RECURSIVE ParseDigits(_, _, _, _)
ParseDigits(str, i, acc, seen) ==
    IF i <= Len(str) /\ str[i] \in Digits
    THEN ParseDigits(str, i + 1, acc * 10 + DigitValue(str[i]), TRUE)
    ELSE [seen |-> seen, val |-> acc]

parseFloat(str) ==
    LET i == SkipWhiteSpace(str, 1)
        neg == i <= Len(str) /\ str[i] = "-"
        j == IF neg THEN i + 1 ELSE i
        r == ParseDigits(str, j, 0, FALSE)
    IN  IF r.seen THEN Num(IF neg THEN 0 - r.val ELSE r.val) ELSE NaN

\* Number.prototype.toString, as the template literal applies it
RECURSIVE NatToString(_)
NatToString(n) ==
    IF n < 10 THEN <<DigitChar(n)>>
    ELSE NatToString(n \div 10) \o <<DigitChar(n % 10)>>

\* a conversion that prints a negative number without its sign
NumberToString_Unsigned(a) ==
    CASE a.k = "nan" -> <<"NaN">>
      [] a.k = "inf" -> <<"Infinity">>
      [] a.k = "num" /\ a.n < 0 -> NatToString(0 - a.n)
      [] OTHER -> NatToString(a.n)

NumberToString(a) ==
    CASE a.k = "nan" -> <<"NaN">>
      [] a = PosInf -> <<"Infinity">>
      [] a = NegInf -> <<"-", "Infinity">>
      [] a.k = "num" /\ a.n < 0 -> <<"-">> \o NatToString(0 - a.n)
      [] OTHER -> NatToString(a.n)

(***************************************************************************)
(* An SVG text: the attributes of its <svg ...> root tag (when it has      *)
(* one) and the tokens between <svg ...> and </svg>.  A token is an        *)
(* attribute name="value", or a piece of markup with an empty value.       *)
(***************************************************************************)
Tok(name, value) == [n |-> name, v |-> value]
Svg(root, body) == [wrapped |-> TRUE, root |-> root, body |-> body]
\* all tokens of the text, in the order of the text
Text(svg) == svg.root \o svg.body

\* the index in toks of the first token that match() finds, 0 for null
RECURSIVE FirstMatch(_, _, _, _)
FirstMatch(toks, names, class, i) ==
    IF i > Len(toks) THEN 0
    ELSE IF toks[i].n \in names /\ Len(toks[i].v) > 0 /\ AllIn(toks[i].v, class) THEN i
    ELSE FirstMatch(toks, names, class, i + 1)

\* svg.match(/viewBox="([\d\s.-]+)"/)
viewBoxMatch(svg) == FirstMatch(Text(svg), {"viewBox"}, ViewBoxClass, 1)
\* svg.match(/width="([\d.]+)"/): the pattern is not anchored at the start
\* of the attribute name, so it is also found in stroke-width="1"
widthMatch(svg) == FirstMatch(Text(svg), {"width", "stroke-width"}, LengthClass, 1)
\* svg.match(/height="([\d.]+)"/)
heightMatch(svg) == FirstMatch(Text(svg), {"height"}, LengthClass, 1)

\* element i of an array after .map(parseFloat), undefined (NaN in the
\* arithmetic that follows) beyond its end
ParsedAt(parts, i) == IF i <= Len(parts) THEN parseFloat(parts[i]) ELSE NaN

ZeroFrame == [x |-> Num(0), y |-> Num(0), w |-> Num(0), h |-> Num(0)]

\* contentMinX, contentMinY, contentWidth, contentHeight of one fragment
ContentFrame(svg) ==
    LET vb == viewBoxMatch(svg)
        wm == widthMatch(svg)
        hm == heightMatch(svg)
    IN  IF vb # 0
        THEN LET parts == Split(Text(svg)[vb].v, " ")
             IN  [x |-> ParsedAt(parts, 1), y |-> ParsedAt(parts, 2),
                  w |-> ParsedAt(parts, 3), h |-> ParsedAt(parts, 4)]
        ELSE IF wm # 0 /\ hm # 0
        THEN [x |-> Num(0), y |-> Num(0),
              w |-> parseFloat(Text(svg)[wm].v), h |-> parseFloat(Text(svg)[hm].v)]
        ELSE ZeroFrame

\* svg.match(/<svg[^>]*>([\s\S]*?)<\/svg>/): the inner content, "" for a
\* text without an <svg> element
Content(svg) == IF svg.wrapped THEN svg.body ELSE <<>>

\* accumulators that keep the frame of the last fragment alone
Accumulate_LastOnly(F, i) ==
    IF i = 0
    THEN [minX |-> PosInf, minY |-> PosInf, maxX |-> NegInf, maxY |-> NegInf]
    ELSE LET c == ContentFrame(F[i])
         IN  [minX |-> c.x, minY |-> c.y,
              maxX |-> JsAdd(c.x, c.w), maxY |-> JsAdd(c.y, c.h)]

\* the accumulators minX, minY, maxX, maxY after the fragments 1..i
RECURSIVE Accumulate(_, _)
Accumulate(F, i) ==
    IF i = 0
    THEN [minX |-> PosInf, minY |-> PosInf, maxX |-> NegInf, maxY |-> NegInf]
    ELSE With(<<Accumulate(F, i - 1), ContentFrame(F[i])>>, LAMBDA s :
             LET acc == s[1]
                 c == s[2]
             IN  [minX |-> MathMin(acc.minX, c.x),
                  minY |-> MathMin(acc.minY, c.y),
                  maxX |-> MathMax(acc.maxX, JsAdd(c.x, c.w)),
                  maxY |-> MathMax(acc.maxY, JsAdd(c.y, c.h))])

\* the contents joined from the last fragment to the first
RECURSIVE JoinContents_Reversed(_, _)
JoinContents_Reversed(F, i) ==
    IF i > Len(F) THEN <<>>
    ELSE JoinContents_Reversed(F, i + 1)
         \o (IF i > 1 THEN <<Tok("\n", <<>>)>> ELSE <<>>) \o Content(F[i])

\* .map(...).join("\n") of the contents
RECURSIVE JoinContents(_, _)
JoinContents(F, i) ==
    IF i > Len(F) THEN <<>>
    ELSE (IF i > 1 THEN <<Tok("\n", <<>>)>> ELSE <<>>) \o Content(F[i])
         \o JoinContents(F, i + 1)

\* a frame whose width and height are maxX and maxY, minX and minY not
\* subtracted
MergedFrame_NoOffset(F) ==
    With(Accumulate(F, Len(F)), LAMBDA acc :
        [x |-> acc.minX, y |-> acc.minY, w |-> acc.maxX, h |-> acc.maxY])

\* minX, minY, finalWidth, finalHeight of mergeSvgs(F)
MergedFrame(F) ==
    With(Accumulate(F, Len(F)), LAMBDA acc :
        [x |-> acc.minX, y |-> acc.minY,
         w |-> JsSub(acc.maxX, acc.minX), h |-> JsSub(acc.maxY, acc.minY)])

\* the string mergeSvgs(F) returns
mergeSvgs(F) ==
    With(MergedFrame(F), LAMBDA fr :
        Svg(<<Tok("xmlns", <<"http://www.w3.org/2000/svg">>),
              Tok("viewBox", NumberToString(fr.x) \o <<" ">> \o NumberToString(fr.y)
                             \o <<" ">> \o NumberToString(fr.w)
                             \o <<" ">> \o NumberToString(fr.h)),
              Tok("width", NumberToString(fr.w)),
              Tok("height", NumberToString(fr.h))>>,
            <<Tok("\n", <<>>)>> \o JoinContents(F, 1) \o <<Tok("\n", <<>>)>>))

\* an outline that rewrites the fills and leaves the strokes as they are
OutlineTokens_FillOnly(toks, i) ==
    [k \in 1..Len(toks) |->
        IF toks[k].n = "fill" THEN Tok("fill", <<"none">>) ELSE toks[k]]

(***************************************************************************)
(* createSvgOutline: .replace(/fill="[^"]*"/g, 'fill="none"') and then     *)
(* .replace(/stroke="[^"]*"/g, 'stroke="black" stroke-width="1"') on each  *)
(* text.                                                                   *)
(***************************************************************************)
RECURSIVE OutlineTokens(_, _)
OutlineTokens(toks, i) ==
    IF i > Len(toks) THEN <<>>
    ELSE (CASE toks[i].n = "fill" -> <<Tok("fill", <<"none">>)>>
            [] toks[i].n = "stroke" ->
                 <<Tok("stroke", <<"black">>), Tok("stroke-width", <<"1">>)>>
            [] OTHER -> <<toks[i]>>)
         \o OutlineTokens(toks, i + 1)

OutlineText(svg) ==
    [wrapped |-> svg.wrapped,
     root |-> OutlineTokens(svg.root, 1),
     body |-> OutlineTokens(svg.body, 1)]

createSvgOutline(F) == [i \in 1..Len(F) |-> OutlineText(F[i])]

(***************************************************************************)
(* The SVG texts the functions are called with.  Traced is what potrace    *)
(* emits for a 10 x 10 bitmap; the others vary the frame metadata.         *)
(***************************************************************************)
Path(fill) ==
    <<Tok("<path", <<>>), Tok("d", <<"M0 0L10 10z">>), Tok("stroke", <<"none">>),
      Tok("fill", <<fill>>), Tok("fill-rule", <<"evenodd">>), Tok("/>", <<>>)>>

Traced ==
    Svg(<<Tok("xmlns", <<"http://www.w3.org/2000/svg">>),
          Tok("width", <<"1", "0">>), Tok("height", <<"1", "0">>),
          Tok("viewBox", <<"0", " ", "0", " ", "1", "0", " ", "1", "0">>),
          Tok("version", <<"1", ".", "1">>)>>,
        Path("#ff0000"))
Shifted ==
    Svg(<<Tok("viewBox", <<"5", " ", "5", " ", "2", "0", " ", "2", "0">>)>>,
        Path("#0000ff"))
NegativeOrigin ==
    Svg(<<Tok("viewBox", <<"-", "5", " ", "-", "7", " ", "1", "0", " ", "1", "0">>)>>,
        Path("#00ff00"))
SizedOnly ==
    Svg(<<Tok("width", <<"3", "0">>), Tok("height", <<"2", "0">>)>>,
        <<Tok("<path", <<>>), Tok("d", <<"M1 1z">>), Tok("fill", <<"#000000">>),
          Tok("/>", <<>>)>>)
NoFrame == Svg(<<>>, Path("#808080"))
\* a viewBox whose numbers are separated by two spaces
DoubleSpaced ==
    Svg(<<Tok("viewBox", <<"5", " ", " ", "5", " ", "2", "0", " ", "2", "0">>)>>,
        Path("#0000ff"))

\* an outlined fragment that declares its height and no width
StrokedHeightOnly ==
    Svg(<<Tok("height", <<"2", "0">>)>>,
        <<Tok("<path", <<>>), Tok("d", <<"M1 1z">>), Tok("stroke", <<"black">>),
          Tok("stroke-width", <<"1">>), Tok("fill", <<"none">>), Tok("/>", <<>>)>>)

FragmentSamples ==
    {Traced, Shifted, NegativeOrigin, SizedOnly, NoFrame, DoubleSpaced, StrokedHeightOnly}
FragmentLists == SeqsUpTo(FragmentSamples, MaxFrags)

(***************************************************************************)
(* mergeSvgs and createSvgOutline called on their own.                     *)
(***************************************************************************)
InitSvg ==
    /\ variant \in Variants
    /\ IdleClassify
    /\ IdleSvg
    /\ IdleRun
    /\ IdleBitmap

SvgIdle == merged = NotCalled /\ outlined = NotCalled /\ nested = NotCalled

CallMergeSvgs ==
    \E F \in FragmentLists :
        /\ SvgIdle
        /\ svgs' = F
        /\ merged' = Returned(mergeSvgs(F))
        /\ frame' = Returned(MergedFrame(F))
        /\ UNCHANGED <<variant, bitmapVars, classifyVars, runVars, outlined, outlinedTwice, groups, nested>>

CallCreateSvgOutline ==
    \E F \in FragmentLists :
        /\ SvgIdle
        /\ svgs' = F
        /\ outlined' = Returned(createSvgOutline(F))
        /\ UNCHANGED <<variant, bitmapVars, classifyVars, runVars, merged, frame, outlinedTwice, groups, nested>>

\* the outlined texts are outlined once more
CallCreateSvgOutlineAgain ==
    /\ outlined # NotCalled
    /\ outlinedTwice = NotCalled
    /\ outlinedTwice' = Returned(createSvgOutline(outlined.value))
    /\ UNCHANGED <<variant, bitmapVars, classifyVars, runVars, svgs, merged, frame, outlined, groups, nested>>

\* the non-empty arrays A and B that together hold at most MaxFrags texts
FragmentPairs ==
    {pr \in (FragmentLists \ {<<>>}) \X (FragmentLists \ {<<>>}) :
        Len(pr[1]) + Len(pr[2]) <= MaxFrags}

\* mergeSvgs([mergeSvgs(A), mergeSvgs(B)]): two merged documents merged
CallMergeSvgsOfMerged ==
    \E pr \in FragmentPairs :
        /\ SvgIdle
        /\ groups' = pr
        /\ nested' = Returned(mergeSvgs(<<mergeSvgs(pr[1]), mergeSvgs(pr[2])>>))
        /\ UNCHANGED <<variant, bitmapVars, classifyVars, runVars, svgs, merged, frame,
                       outlined, outlinedTwice>>

NextSvg ==
    \/ CallMergeSvgs
    \/ CallMergeSvgsOfMerged
    \/ CallCreateSvgOutline
    \/ CallCreateSvgOutlineAgain

SpecSvg == InitSvg /\ [][NextSvg]_vars

(***************************************************************************)
(* C3: mergeSvgs of an empty array returns a zero-sized document with      *)
(* empty content: frame (0, 0, 0, 0), and no Infinity or -Infinity in its  *)
(* viewBox, width or height.                                               *)
(***************************************************************************)
C3_EmptyMergeIsZeroSized ==
    (merged # NotCalled /\ svgs = <<>>) =>
        /\ frame.value = ZeroFrame
        /\ \A i \in 1..Len(merged.value.root) :
              "Infinity" \notin {merged.value.root[i].v[j] :
                                    j \in 1..Len(merged.value.root[i].v)}
        /\ \A i \in 1..Len(merged.value.body) : merged.value.body[i].n = "\n"

\* the frame metadata of the fragment is integer-valued: its viewBox, when
\* one is matched, is four integers separated by single spaces, and the
\* width and height that are used instead are integers
IsInteger(str) ==
    /\ Len(str) > 0
    /\ IF str[1] = "-"
       THEN Len(str) > 1 /\ \A i \in 2..Len(str) : str[i] \in Digits
       ELSE AllIn(str, Digits)

IntegerFramed(svg) ==
    LET vb == viewBoxMatch(svg)
        wm == widthMatch(svg)
        hm == heightMatch(svg)
    IN  IF vb # 0
        THEN LET parts == Split(Text(svg)[vb].v, " ")
             IN  Len(parts) = 4 /\ \A i \in 1..4 : IsInteger(parts[i])
        ELSE (wm # 0 /\ hm # 0) =>
                (IsInteger(Text(svg)[wm].v) /\ IsInteger(Text(svg)[hm].v))

AllIntegerFramed(F) == \A i \in 1..Len(F) : IntegerFramed(F[i])

C6_OutlineIsIdempotent ==
    outlinedTwice # NotCalled => outlinedTwice.value = outlined.value

(***************************************************************************)
(* Bitmaps, hex strings and the palettes scanned from a bitmap.            *)
(***************************************************************************)
White == <<255, 255, 255>>

Bitmap(w, h, data) == [width |-> w, height |-> h, data |-> data]

HexDigitChar(d) ==
    <<"0", "1", "2", "3", "4", "5", "6", "7", "8", "9",
      "a", "b", "c", "d", "e", "f">>[d + 1]

HexDigitValue(ch) ==
    CASE ch \in Digits -> DigitValue(ch)
      [] ch = "a" -> 10 [] ch = "b" -> 11 [] ch = "c" -> 12
      [] ch = "d" -> 13 [] ch = "e" -> 14 [] ch = "f" -> 15

\* x.toString(16).padStart(2, "0") for a channel 0..255
HexByte(x) ==
    IF x < 16 THEN <<"0", HexDigitChar(x)>>
    ELSE <<HexDigitChar(x \div 16), HexDigitChar(x % 16)>>

rgbToHex(rgb) == <<"#">> \o HexByte(rgb[1]) \o HexByte(rgb[2]) \o HexByte(rgb[3])

mapColorPaletteToHex(P) == [i \in 1..Len(P) |-> rgbToHex(P[i])]

\* parseInt(hexString.slice(from, to), 16) for two hex digits
ParseHexByte(hex, from) ==
    HexDigitValue(hex[from + 1]) * 16 + HexDigitValue(hex[from + 2])

\* Math.round(0.3 * r + 0.59 * g + 0.11 * b)
Luma(r, g, b) == (30 * r + 59 * g + 11 * b + 50) \div 100

greyHexToNumber(hex) ==
    Luma(ParseHexByte(hex, 1), ParseHexByte(hex, 3), ParseHexByte(hex, 5))

\* an array of the values in scan order, without the Set
Distinct_KeepsAll(values, i, out) == values

\* Array.from(new Set(...)) of the values added in scan order
RECURSIVE Distinct(_, _, _)
Distinct(values, i, out) ==
    IF i > Len(values) THEN out
    ELSE Distinct(values, i + 1,
            IF \E j \in 1..Len(out) : out[j] = values[i]
            THEN out ELSE Append(out, values[i]))

extractAllColors(bmp) ==
    Distinct([i \in 1..Len(bmp.data) |-> rgbToHex(bmp.data[i])], 1, <<>>)

GreyHexOf(px) ==
    LET grey == Luma(px[1], px[2], px[3]) IN rgbToHex(<<grey, grey, grey>>)

extractGreyscalePalette(bmp) ==
    Distinct([i \in 1..Len(bmp.data) |-> GreyHexOf(bmp.data[i])], 1, <<>>)

\* image.clone().greyscale() of Jimp: every pixel becomes the grey
\* parseInt(0.2126 r + 0.7152 g + 0.0722 b)
JimpGreyscale(bmp) ==
    [bmp EXCEPT !.data =
        [i \in 1..Len(bmp.data) |->
            LET grey == (2126 * bmp.data[i][1] + 7152 * bmp.data[i][2]
                         + 722 * bmp.data[i][3]) \div 10000
            IN  <<grey, grey, grey>>]]

extractAllGreyscale(bmp) == extractAllColors(JimpGreyscale(bmp))

\* getBuffer("image/png"): the encoded bitmap, "<width>x<height>:" and six
\* hex digits per pixel; Jimp.read decodes it
RECURSIVE PixelChars(_, _)
PixelChars(data, i) ==
    IF i > Len(data) THEN <<>>
    ELSE HexByte(data[i][1]) \o HexByte(data[i][2]) \o HexByte(data[i][3])
         \o PixelChars(data, i + 1)

Png(bmp) ==
    NatToString(bmp.width) \o <<"x">> \o NatToString(bmp.height) \o <<":">>
    \o PixelChars(bmp.data, 1)

RECURSIVE PixelsOf(_, _)
PixelsOf(chars, from) ==
    IF from + 6 > Len(chars) THEN <<>>
    ELSE <<<<ParseHexByte(chars, from), ParseHexByte(chars, from + 2),
             ParseHexByte(chars, from + 4)>>>> \o PixelsOf(chars, from + 6)

JimpRead(buffer) ==
    LET parts == Split(buffer, ":")
        dims == Split(parts[1], "x")
    IN  Bitmap(parseFloat(dims[1]).n, parseFloat(dims[2]).n, PixelsOf(parts[2], 0))

\* `data:image/png;base64,${buffer.toString("base64")}` and
\* Buffer.from(uri.split(",")[1], "base64"); the base64 text stands for the
\* bytes it encodes
DataUri(buffer) == <<"data:image/png;base64", ",">> \o buffer
BufferOfDataUri(uri) == Split(uri, ",")[2]

\* the mask of one palette colour: the pixels that differ from it in some
\* channel are set to white, on a clone
ColorMask(bmp, entry) ==
    [bmp EXCEPT !.data =
        [i \in 1..Len(bmp.data) |->
            IF bmp.data[i][1] # entry[1] \/ bmp.data[i][2] # entry[2]
               \/ bmp.data[i][3] # entry[3]
            THEN White ELSE bmp.data[i]]]

\* a separateColors that scans the image itself instead of a clone: each
\* mask is made from what the previous scan left
RECURSIVE ScannedInPlace(_, _, _)
ScannedInPlace(bmp, P, i) ==
    IF i = 0 THEN bmp ELSE ColorMask(ScannedInPlace(bmp, P, i - 1), P[i])

separateColors_InPlace(bmp, P) ==
    [i \in 1..Len(P) |-> DataUri(Png(ScannedInPlace(bmp, P, i)))]
separateColors(bmp, P) == [i \in 1..Len(P) |-> DataUri(Png(ColorMask(bmp, P[i])))]

TOLERANCE == 5

Abs(x) == IF x < 0 THEN 0 - x ELSE x

\* a mask that keeps the pixels of the band as they are instead of snapping
\* them to the target grey
GreyMask_KeepsPixel(bmp, greyHex) ==
    LET targetGrey == greyHexToNumber(greyHex)
    IN  [bmp EXCEPT !.data =
            [i \in 1..Len(bmp.data) |->
                IF Abs(Luma(bmp.data[i][1], bmp.data[i][2], bmp.data[i][3])
                       - targetGrey) <= TOLERANCE
                THEN bmp.data[i] ELSE White]]

\* the mask of one grey: the pixels whose luma is within TOLERANCE of the
\* target become the target grey, the others white, on a clone
GreyMask(bmp, greyHex) ==
    LET targetGrey == greyHexToNumber(greyHex)
    IN  [bmp EXCEPT !.data =
            [i \in 1..Len(bmp.data) |->
                IF Abs(Luma(bmp.data[i][1], bmp.data[i][2], bmp.data[i][3])
                       - targetGrey) <= TOLERANCE
                THEN <<targetGrey, targetGrey, targetGrey>> ELSE White]]

\* a separation that scans one shared bitmap instead of a clone per grey:
\* mask i is made from mask i - 1
RECURSIVE SharedMasks(_, _, _)
SharedMasks(bmp, greys, i) ==
    IF i > Len(greys) THEN <<>>
    ELSE <<DataUri(Png(GreyMask(bmp, greys[i])))>>
         \o SharedMasks(GreyMask(bmp, greys[i]), greys, i + 1)

separateGreyscaleColors_SharedBitmap(bmp, greys) == SharedMasks(bmp, greys, 1)

separateGreyscaleColors(bmp, greys) ==
    [i \in 1..Len(greys) |-> DataUri(Png(GreyMask(bmp, greys[i])))]

\* processImage on a bitmap record: the scan rewrites bmp.data
processBitmap(v, bmp, P) ==
    LET r == processImage(v, bmp.data, P)
    IN  IF r.status = "ok" THEN Returned([bmp EXCEPT !.data = r.value])
        ELSE Threw(r.status)

(***************************************************************************)
(* The bitmap functions called on their own.                               *)
(***************************************************************************)
\* pixels of the bitmaps: two greys whose lumas are 4 apart, black and white
ScanPixels == {<<0, 0, 0>>, <<100, 100, 100>>, <<104, 104, 104>>, White}
\* entries of the colour palettes handed to processImage and separateColors
MaskColors == {<<0, 0, 0>>, <<100, 100, 100>>, <<255, 0, 0>>}
\* entries of the greyscale palettes handed to separateGreyscaleColors
GreyHexes == {rgbToHex(<<100, 100, 100>>), rgbToHex(<<104, 104, 104>>),
              rgbToHex(<<108, 108, 108>>)}

Shapes == {s \in (1..MaxPixels) \X (1..MaxPixels) : s[1] * s[2] <= MaxPixels}
ScanBitmaps ==
    UNION {{Bitmap(s[1], s[2], d) : d \in [1..(s[1] * s[2]) -> ScanPixels]} :
           s \in Shapes}
MaskPalettes == SeqsUpTo(MaskColors, MaxLayers)
GreyPalettes == SeqsUpTo(GreyHexes, MaxLayers)

InitBitmap ==
    /\ variant \in Variants
    /\ IdleClassify
    /\ IdleSvg
    /\ IdleRun
    /\ IdleBitmap

\* separateColors(processImage(B, P), P)
CallSeparateColors ==
    \E B \in ScanBitmaps, P \in MaskPalettes :
    \E q \in {processBitmap(variant, B, P)} :
        /\ op = "none"
        /\ op' = "separateColors"
        /\ bitmap' = B
        /\ targets' = P
        /\ quantized' = q
        /\ layers' = IF q.status = "ok" THEN Returned(separateColors(q.value, P))
                     ELSE NotCalled
        /\ scanned' = NotCalled
        /\ UNCHANGED <<variant, classifyVars, svgVars, runVars>>

\* separateColors(B, P) on a bitmap as it is; bitmap is the image argument
\* as the caller finds it after the call
CallSeparateColorsOnly ==
    \E B \in ScanBitmaps, P \in MaskPalettes :
        /\ op = "none"
        /\ op' = "separateColorsOnly"
        /\ bitmap' = B
        /\ targets' = P
        /\ layers' = Returned(separateColors(B, P))
        /\ UNCHANGED <<quantized, scanned>>
        /\ UNCHANGED <<variant, classifyVars, svgVars, runVars>>

\* the bitmap a mask decodes to
Decoded(uri) == JimpRead(BufferOfDataUri(uri))

\* separateGreyscaleColors(B, greys)
CallSeparateGreyscaleColors ==
    \E B \in ScanBitmaps, greys \in GreyPalettes :
        /\ op = "none"
        /\ op' = "separateGreyscaleColors"
        /\ bitmap' = B
        /\ targets' = greys
        /\ layers' = Returned(separateGreyscaleColors(B, greys))
        /\ UNCHANGED <<quantized, scanned>>
        /\ UNCHANGED <<variant, classifyVars, svgVars, runVars>>

\* extractAllColors(B)
CallExtractAllColors ==
    \E B \in ScanBitmaps :
        /\ op = "none"
        /\ op' = "extractAllColors"
        /\ bitmap' = B
        /\ scanned' = Returned(extractAllColors(B))
        /\ UNCHANGED <<targets, quantized, layers>>
        /\ UNCHANGED <<variant, classifyVars, svgVars, runVars>>

\* extractGreyscalePalette(B)
CallExtractGreyscalePalette ==
    \E B \in ScanBitmaps :
        /\ op = "none"
        /\ op' = "extractGreyscalePalette"
        /\ bitmap' = B
        /\ scanned' = Returned(extractGreyscalePalette(B))
        /\ UNCHANGED <<targets, quantized, layers>>
        /\ UNCHANGED <<variant, classifyVars, svgVars, runVars>>

NextBitmap ==
    \/ CallSeparateColors
    \/ CallSeparateColorsOnly
    \/ CallSeparateGreyscaleColors
    \/ CallExtractAllColors
    \/ CallExtractGreyscalePalette

SpecBitmap == InitBitmap /\ [][NextBitmap]_vars

\* C11: separateColors on a bitmap B quantized to a palette P of length K
\* yields K masks; mask i has the dimensions of B and holds P[i] where the
\* quantized bitmap holds P[i], and white elsewhere.
C11_OneMaskPerPaletteEntry ==
    op = "separateColors" =>
        /\ layers.status = "ok"
        /\ Len(layers.value) = Len(targets)
        /\ \A i \in 1..Len(targets) :
               /\ Decoded(layers.value[i]).width = bitmap.width
               /\ Decoded(layers.value[i]).height = bitmap.height
               /\ Len(Decoded(layers.value[i]).data) = bitmap.width * bitmap.height
               /\ \A k \in 1..Len(bitmap.data) :
                      Decoded(layers.value[i]).data[k] =
                          IF quantized.value.data[k] = targets[i]
                          THEN targets[i] ELSE White

\* the grey a greyscale hex string names, and the luma of pixel k
TargetOf(hex) == ParseHexByte(hex, 1)
LumaAt(k) == Luma(bitmap.data[k][1], bitmap.data[k][2], bitmap.data[k][3])
InBand(k, hex) ==
    /\ TargetOf(hex) - 5 <= LumaAt(k)
    /\ LumaAt(k) <= TargetOf(hex) + 5
Grey(t) == <<t, t, t>>

\* C12: in the mask of target luma t, a pixel whose luma lies in [t-5, t+5]
\* is the grey (t,t,t) and every other pixel is white; a pixel outside all
\* bands is white in every mask.
C12_BandPixelsAreTargetGrey ==
    op = "separateGreyscaleColors" =>
        /\ layers.status = "ok"
        /\ Len(layers.value) = Len(targets)
        /\ \A i \in 1..Len(targets), k \in 1..Len(bitmap.data) :
               Decoded(layers.value[i]).data[k] =
                   IF InBand(k, targets[i]) THEN Grey(TargetOf(targets[i]))
                   ELSE White
        /\ \A k \in 1..Len(bitmap.data) :
               (\A i \in 1..Len(targets) : ~InBand(k, targets[i])) =>
                   \A i \in 1..Len(targets) :
                       Decoded(layers.value[i]).data[k] = White

\* a mask that snapped a pixel of another luma to its target and turned a
\* black pixel, outside the band, white
C12_Witness ==
    /\ op = "separateGreyscaleColors"
    /\ Len(targets) >= 1
    /\ \E k \in 1..Len(bitmap.data) :
           /\ InBand(k, targets[1])
           /\ LumaAt(k) # TargetOf(targets[1])
           /\ Decoded(layers.value[1]).data[k] = Grey(TargetOf(targets[1]))
    /\ \E k \in 1..Len(bitmap.data) :
           /\ bitmap.data[k] = <<0, 0, 0>>
           /\ Decoded(layers.value[1]).data[k] = White

\* C13: a pixel whose luma is within tolerance of two different targets is
\* grey t1 in the mask of t1 and grey t2 in the mask of t2: no mask takes the
\* pixel away from another.
C13_OverlappingBandsBothClaim ==
    op = "separateGreyscaleColors" =>
        \A i, j \in 1..Len(targets), k \in 1..Len(bitmap.data) :
            (/\ TargetOf(targets[i]) # TargetOf(targets[j])
             /\ InBand(k, targets[i])
             /\ InBand(k, targets[j]))
            => /\ Decoded(layers.value[i]).data[k] = Grey(TargetOf(targets[i]))
               /\ Decoded(layers.value[j]).data[k] = Grey(TargetOf(targets[j]))

\* the targets 100 and 108 and a pixel of luma 104: grey 100 in the first
\* mask, grey 108 in the second
C13_Witness ==
    /\ op = "separateGreyscaleColors"
    /\ Len(targets) = 2
    /\ TargetOf(targets[1]) = 100
    /\ TargetOf(targets[2]) = 108
    /\ \E k \in 1..Len(bitmap.data) :
           /\ bitmap.data[k] = <<104, 104, 104>>
           /\ Decoded(layers.value[1]).data[k] = <<100, 100, 100>>
           /\ Decoded(layers.value[2]).data[k] = <<108, 108, 108>>

\* the hex strings of the pixels in scan order: the colours for
\* extractAllColors, the lumas as greys for extractGreyscalePalette
ScannedHex(k) ==
    IF op = "extractAllColors" THEN rgbToHex(bitmap.data[k])
    ELSE rgbToHex(Grey(LumaAt(k)))

FirstSeen(hex) ==
    CHOOSE k \in 1..Len(bitmap.data) :
        /\ ScannedHex(k) = hex
        /\ \A m \in 1..(k - 1) : ScannedHex(m) # hex

\* C17: extractAllColors and extractGreyscalePalette return every colour
\* (luma) of the bitmap exactly once, in the order of first occurrence, with
\* no cap; a bitmap of one colour gives one entry, "#ffffff" for white.
C17_ScanKeepsFirstSeenOrder ==
    op \in {"extractAllColors", "extractGreyscalePalette"} =>
        /\ scanned.status = "ok"
        /\ \A k \in 1..Len(bitmap.data) :
               \E e \in 1..Len(scanned.value) : scanned.value[e] = ScannedHex(k)
        /\ \A e \in 1..Len(scanned.value) :
               \E k \in 1..Len(bitmap.data) : scanned.value[e] = ScannedHex(k)
        /\ \A e, f \in 1..Len(scanned.value) :
               e < f => /\ scanned.value[e] # scanned.value[f]
                        /\ FirstSeen(scanned.value[e]) < FirstSeen(scanned.value[f])
        /\ Len(scanned.value) = Cardinality({ScannedHex(k) : k \in 1..Len(bitmap.data)})
        /\ (\A k \in 1..Len(bitmap.data) : bitmap.data[k] = White) =>
               scanned.value = <<<<"#", "f", "f", "f", "f", "f", "f">>>>

\* a white bitmap of more than one pixel scanned to the single entry #ffffff
C17_Witness ==
    /\ op \in {"extractAllColors", "extractGreyscalePalette"}
    /\ Len(bitmap.data) > 1
    /\ \A k \in 1..Len(bitmap.data) : bitmap.data[k] = White
    /\ Len(scanned.value) = 1

(***************************************************************************)
(* One vectori(file) run.                                                  *)
(***************************************************************************)
Red == <<255, 0, 0>>
Blue == <<0, 0, 255>>
Black == <<0, 0, 0>>

\* what the bytes of a file decode to
DecodedImage(bytes) ==
    IF bytes = "redblue" THEN Bitmap(2, 1, <<Red, Blue>>)
    ELSE Bitmap(2, 1, <<Black, Black>>)

\* the argument: a Blob/File, a Buffer or a path, of a readable image or not
Files == [kind : {"blob", "buffer", "path"}, bytes : {"redblue", "black", "malformed"}]

\* the colours a clustered palette may hold: the clustering is the quantize
\* (or node-vibrant) library, which averages the colours of a bucket
LayerColors == {Red, <<0, 0, 248>>}
ClusteredPalettes == SeqsUpTo(LayerColors, MaxLayers)

Rejected(reason) == [status |-> "rejected", value |-> reason]
Fulfilled(v) == [status |-> "fulfilled", value |-> v]

\* file.arrayBuffer() exists on a Blob/File only
createBuffer(f) ==
    IF f.kind = "blob" THEN Returned(f.bytes) ELSE Threw("TypeError")

\* Jimp.read(buffer)
createImage(buffer) ==
    IF buffer = "malformed" THEN Threw("DecodeError")
    ELSE Returned(DecodedImage(buffer))

Bind(env, name, v) == (name :> v) @@ env

Bound(name) == name \in DOMAIN locals

\* the svg the tracer calls back with for a mask and a fill colour
RECURSIVE PathData(_, _)
PathData(data, i) ==
    IF i > Len(data) THEN <<>> ELSE rgbToHex(data[i]) \o PathData(data, i + 1)

TraceSvg(buffer, fill) ==
    LET bmp == JimpRead(buffer)
        w == NatToString(bmp.width)
        h == NatToString(bmp.height)
    IN  Svg(<<Tok("xmlns", <<"http://www.w3.org/2000/svg">>),
              Tok("width", w), Tok("height", h),
              Tok("viewBox", <<"0", " ", "0", " ">> \o w \o <<" ">> \o h),
              Tok("version", <<"1", ".", "1">>)>>,
            <<Tok("<path", <<>>), Tok("d", PathData(bmp.data, 1)),
              Tok("stroke", <<"none">>), Tok("fill", fill),
              Tok("fill-rule", <<"evenodd">>), Tok("/>", <<>>)>>)

(***************************************************************************)
(* Promise.all over the n promises of one traceImagesToSvgs call.          *)
(***************************************************************************)
\* a Promise.all that is fulfilled before its promises are
NewBatch_Fulfilled(n) ==
    [state |-> "fulfilled",
     values |-> [i \in 1..n |-> NotCalled],
     reason |-> <<>>]

NewBatch(n) ==
    [state |-> IF n = 0 THEN "fulfilled" ELSE "pending",
     values |-> [i \in 1..n |-> NotCalled],
     reason |-> <<>>]

\* a Promise.all that collects the values in the order they arrive
PromiseAllFulfil_ArrivalOrder(batch, i, v) ==
    IF batch.state # "pending" THEN batch
    ELSE LET k == CHOOSE j \in 1..Len(batch.values) :
                     /\ batch.values[j].status = "none"
                     /\ \A m \in 1..(j - 1) : batch.values[m].status = "ok"
             vals == [batch.values EXCEPT ![k] = Returned(v)]
         IN  [batch EXCEPT
                 !.values = vals,
                 !.state = IF \A j \in 1..Len(vals) : vals[j].status = "ok"
                           THEN "fulfilled" ELSE "pending"]

\* promise i is resolved with v
PromiseAllFulfil(batch, i, v) ==
    IF batch.state # "pending" THEN batch
    ELSE LET vals == [batch.values EXCEPT ![i] = Returned(v)]
         IN  [batch EXCEPT
                 !.values = vals,
                 !.state = IF \A j \in 1..Len(vals) : vals[j].status = "ok"
                           THEN "fulfilled" ELSE "pending"]

\* a Promise.all that waits for the other promises and drops the failure
PromiseAllReject_Settled(batch, reason) ==
    IF batch.state # "pending" THEN batch
    ELSE LET vals == [j \in 1..Len(batch.values) |->
                        IF batch.values[j].status = "none"
                        THEN Returned(Svg(<<>>, <<>>)) ELSE batch.values[j]]
         IN  [batch EXCEPT !.values = vals, !.state = "fulfilled"]

\* a promise is rejected with reason
PromiseAllReject(batch, reason) ==
    IF batch.state # "pending" THEN batch
    ELSE [batch EXCEPT !.state = "rejected", !.reason = reason]

\* traceImagesToSvgs(images, colors): one trace() call per image, issued
\* at once, each with the colour of the same index
IssueBatch(b, images, colors) ==
    /\ calls' = [c \in {<<b, i>> : i \in 1..Len(images)} |->
                    [buffer |-> BufferOfDataUri(images[c[2]]),
                     color |-> colors[c[2]],
                     state |-> "pending",
                     order |-> 0]] @@ calls
    /\ batches' = Bind(batches, b, NewBatch(Len(images)))

\* a function that catches the failure and returns what it has computed
Reject_PartialView(reason) ==
    /\ pc' = "resolved"
    /\ outcome' = Fulfilled(locals)

\* the async function ends by throwing
Reject(reason) ==
    /\ pc' = "rejected"
    /\ outcome' = Rejected(reason)

Values(batch) == [i \in 1..Len(batch.values) |-> batch.values[i].value]

\* the place of the next callback among the callbacks of batch b
Arrival(b) ==
    1 + Cardinality({c \in DOMAIN calls : c[1] = b /\ calls[c].state # "pending"})

InitRun ==
    /\ variant \in Variants
    /\ IdleClassify
    /\ IdleSvg
    /\ IdleBitmap
    /\ file \in Files
    /\ pc = "start"
    /\ locals = <<>>
    /\ calls = <<>>
    /\ batches = <<>>
    /\ outcome = NotCalled
    /\ answer = [accessor |-> "none", arg |-> "none", result |-> NotCalled,
                 again |-> FALSE]

\* steps 1: createBuffer(file) and createImage(buffer)
Decode ==
    /\ pc = "start"
    /\ LET buffer == createBuffer(file)
           img == createImage(buffer.value)
       IN  IF buffer.status # "ok"
           THEN Reject(<<buffer.status>>) /\ UNCHANGED locals
           ELSE IF img.status # "ok"
           THEN Reject(<<img.status>>) /\ UNCHANGED locals
           ELSE /\ locals' = ("buffer" :> buffer.value) @@ ("image" :> img.value)
                /\ pc' = "decoded"
                /\ UNCHANGED outcome
    /\ UNCHANGED <<variant, bitmapVars, classifyVars, svgVars, answer, file, calls, batches>>

\* steps 2-6: the palettes, the quantized and the greyscale image, and the
\* two separations.  "lib" quantizes a clone; "index" and "publish" hand
\* the image itself to processImage, which rewrites it.
Prepare ==
    /\ pc = "decoded"
    /\ \E P \in ClusteredPalettes :
       \E proc \in {processBitmap(variant, locals["image"], P)} :
         IF proc.status # "ok"
         THEN Reject(<<proc.status>>) /\ UNCHANGED locals
         ELSE \E image1 \in {IF variant = "lib" THEN locals["image"] ELSE proc.value} :
              \E greyscaleImage \in {DataUri(Png(JimpGreyscale(image1)))} :
              \E greyscalePalette \in
                    {extractGreyscalePalette(JimpRead(BufferOfDataUri(greyscaleImage)))} :
                /\ locals' =
                        ("colorPaletteValues" :> P)
                     @@ ("colorPallet" :> mapColorPaletteToHex(P))
                     @@ ("allColorsPalette" :> extractAllColors(locals["image"]))
                     @@ ("greyscaleAllColorsPalette" :>
                            IF variant = "lib" THEN greyscalePalette
                            ELSE extractAllGreyscale(locals["image"]))
                     @@ ("image" :> image1)
                     @@ ("colorImage" :> DataUri(Png(proc.value)))
                     @@ ("greyscaleImage" :> greyscaleImage)
                     @@ ("greyscalePalette" :> greyscalePalette)
                     @@ ("separatedColorImages" :> separateColors(image1, P))
                     @@ ("separatedGreyscaleImages" :>
                            separateGreyscaleColors(image1, greyscalePalette))
                     @@ locals
                /\ pc' = "separated"
                /\ UNCHANGED outcome
    /\ UNCHANGED <<variant, bitmapVars, classifyVars, svgVars, answer, file, calls, batches>>

\* a step 7 that starts both traceImagesToSvgs calls before awaiting either
IssueColorTraces_BothBatches ==
    /\ pc = "separated"
    /\ calls' =
           [c \in {<<"color", i>> : i \in 1..Len(locals["separatedColorImages"])}
                   \cup {<<"grey", i>> : i \in 1..Len(locals["separatedGreyscaleImages"])} |->
               [buffer |-> BufferOfDataUri(
                               IF c[1] = "color" THEN locals["separatedColorImages"][c[2]]
                               ELSE locals["separatedGreyscaleImages"][c[2]]),
                color |-> IF c[1] = "color" THEN locals["colorPallet"][c[2]]
                          ELSE locals["greyscalePalette"][c[2]],
                state |-> "pending",
                order |-> 0]]
    /\ batches' = ("color" :> NewBatch(Len(locals["separatedColorImages"])))
                   @@ ("grey" :> NewBatch(Len(locals["separatedGreyscaleImages"])))
    /\ pc' = "awaitColor"
    /\ UNCHANGED <<variant, bitmapVars, classifyVars, svgVars, answer, file, locals, outcome>>

\* step 7, first half: traceImagesToSvgs(separatedColorImages, colorPallet)
IssueColorTraces ==
    /\ pc = "separated"
    /\ IssueBatch("color", locals["separatedColorImages"], locals["colorPallet"])
    /\ pc' = "awaitColor"
    /\ UNCHANGED <<variant, bitmapVars, classifyVars, svgVars, answer, file, locals, outcome>>

\* the tracer calls back with an svg: resolve(svg)
TraceSucceeds ==
    \E c \in DOMAIN calls :
        /\ calls[c].state = "pending"
        /\ calls' = [calls EXCEPT ![c].state = "ok", ![c].order = Arrival(c[1])]
        /\ batches' = [batches EXCEPT ![c[1]] =
                          PromiseAllFulfil(@, c[2],
                                           TraceSvg(calls[c].buffer, calls[c].color))]
        /\ UNCHANGED <<variant, bitmapVars, classifyVars, svgVars, answer, file, pc, locals, outcome>>

\* a batch that takes the error of every failing call: the last one stays
TraceFails_LastErrorStays ==
    \E c \in DOMAIN calls :
        /\ calls[c].state = "pending"
        /\ calls' = [calls EXCEPT ![c].state = "err", ![c].order = Arrival(c[1])]
        /\ batches' = [batches EXCEPT ![c[1]] =
                          [@ EXCEPT !.state = "rejected",
                                    !.reason = <<"TracerError", c[1], c[2]>>]]
        /\ UNCHANGED <<variant, bitmapVars, classifyVars, svgVars, answer, file, pc, locals, outcome>>

\* the tracer calls back with an error: reject(error)
TraceFails ==
    \E c \in DOMAIN calls :
        /\ calls[c].state = "pending"
        /\ calls' = [calls EXCEPT ![c].state = "err", ![c].order = Arrival(c[1])]
        /\ batches' = [batches EXCEPT ![c[1]] =
                          PromiseAllReject(@, <<"TracerError", c[1], c[2]>>)]
        /\ UNCHANGED <<variant, bitmapVars, classifyVars, svgVars, answer, file, pc, locals, outcome>>

\* a step 7 that catches the failure of the colour batch, takes [] for its
\* fragments and goes on to the greyscale batch
ResumeAfterColor_SwallowsFailure ==
    /\ pc = "awaitColor"
    /\ batches["color"].state # "pending"
    /\ locals' = Bind(locals, "separatedColorSvgs",
                      IF batches["color"].state = "rejected" THEN <<>>
                      ELSE Values(batches["color"]))
    /\ IssueBatch("grey", locals["separatedGreyscaleImages"],
                  locals["greyscalePalette"])
    /\ pc' = "awaitGrey"
    /\ UNCHANGED <<variant, bitmapVars, classifyVars, svgVars, answer, file, outcome>>

\* the await of the colour batch ends; step 7, second half:
\* traceImagesToSvgs(separatedGreyscaleImages, greyscalePalette)
ResumeAfterColor ==
    /\ pc = "awaitColor"
    /\ batches["color"].state # "pending"
    /\ IF batches["color"].state = "rejected"
       THEN /\ Reject(batches["color"].reason)
            /\ UNCHANGED <<locals, calls, batches>>
       ELSE /\ locals' = Bind(locals, "separatedColorSvgs", Values(batches["color"]))
            /\ IssueBatch("grey", locals["separatedGreyscaleImages"],
                          locals["greyscalePalette"])
            /\ pc' = "awaitGrey"
            /\ UNCHANGED outcome
    /\ UNCHANGED <<variant, bitmapVars, classifyVars, svgVars, answer, file>>

\* a returned object whose svg answers the greyscale-outline document for
\* "color-outline" and the colour-outline document for "greyscale-outline"
ResultView_SwapsOutlines(env) ==
    [image |-> [color |-> env["colorImage"], greyscale |-> env["greyscaleImage"]],
     palettePopular |-> [color |-> env["colorPallet"],
                         greyscale |-> env["greyscalePalette"]],
     paletteAll |-> [color |-> env["allColorsPalette"],
                     greyscale |-> env["greyscaleAllColorsPalette"]],
     componentsImage |-> [color |-> env["separatedColorImages"],
                          greyscale |-> env["separatedGreyscaleImages"]],
     componentsSvg |-> [color |-> env["separatedColorSvgs"],
                        greyscale |-> env["separatedGreyscaleSvgs"],
                        outline |-> env["separatedOutlinedSvgs"]],
     svg |-> ("color" :> env["mergedColorSvg"])
             @@ ("greyscale" :> env["mergedGreyscaleSvg"])
             @@ ("outline" :> env["mergedOutlinedSvg"])
             @@ ("color-outline" :> env["mergedGreyscaleOutlinedSvg"])
             @@ ("greyscale-outline" :> env["mergedColorOutlinedSvg"])]

\* the object vectori returns: what each accessor answers for each fill
ResultView(env) ==
    [image |-> [color |-> env["colorImage"], greyscale |-> env["greyscaleImage"]],
     palettePopular |-> [color |-> env["colorPallet"],
                         greyscale |-> env["greyscalePalette"]],
     paletteAll |-> [color |-> env["allColorsPalette"],
                     greyscale |-> env["greyscaleAllColorsPalette"]],
     componentsImage |-> [color |-> env["separatedColorImages"],
                          greyscale |-> env["separatedGreyscaleImages"]],
     componentsSvg |-> [color |-> env["separatedColorSvgs"],
                        greyscale |-> env["separatedGreyscaleSvgs"],
                        outline |-> env["separatedOutlinedSvgs"]],
     svg |-> ("color" :> env["mergedColorSvg"])
             @@ ("greyscale" :> env["mergedGreyscaleSvg"])
             @@ ("outline" :> env["mergedOutlinedSvg"])
             @@ ("color-outline" :> env["mergedColorOutlinedSvg"])
             @@ ("greyscale-outline" :> env["mergedGreyscaleOutlinedSvg"])]

\* the accessors the README names, and the one the lib and publish copies
\* have in the place of palette.popular
Accessors ==
    {"image", "palette.popular", "palette.vibrant", "palette.all",
     "components.image", "components.svg", "svg"}

\* the argument of an accessor call: no argument at all, {} or { fill }
Args ==
    {"none", "{}", "color", "greyscale", "outline", "color-outline",
     "greyscale-outline", "sepia"}

ReturnedUndefined == [status |-> "undefined", value |-> <<>>]

\* createPallet(buffer, colorCount = 6): the number of colours asked of the
\* clustering
colorCount == 6

\* if (fill === k) return stored[k], for the keys of the if-chain; undefined
\* when no branch returns
IfChain(stored, keys, fill) ==
    IF fill \in keys THEN Returned(stored[fill]) ELSE ReturnedUndefined

\* accessor a of the object that variant v returns, called with arg
Access(v, view, a, arg) ==
    LET fill == IF arg \in {"none", "{}"} THEN "color" ELSE arg
        popularName == IF v = "index" THEN "palette.popular" ELSE "palette.vibrant"
    IN  CASE a \in {"palette.popular", "palette.vibrant"} /\ a # popularName ->
                Threw("TypeError")
          [] arg = "none" /\ a # "palette.all" -> Threw("TypeError")
          [] a = "image" ->
                IF v = "lib"
                THEN Returned(IF fill = "greyscale" THEN view.image.greyscale
                              ELSE view.image.color)
                ELSE IfChain(view.image, {"greyscale", "color"}, fill)
          [] a = popularName ->
                IF v = "lib"
                THEN Returned(IF fill = "greyscale" THEN view.palettePopular.greyscale
                              ELSE view.palettePopular.color)
                ELSE IfChain(view.palettePopular, {"greyscale", "color"}, fill)
          [] a = "palette.all" ->
                IF v = "lib"
                THEN Returned(IF fill = "greyscale" THEN view.paletteAll.greyscale
                              ELSE view.paletteAll.color)
                ELSE IfChain(view.paletteAll, {"greyscale", "color"}, fill)
          [] a = "components.image" ->
                IF v = "lib"
                THEN Returned(IF fill = "color" THEN view.componentsImage.color
                              ELSE view.componentsImage.greyscale)
                ELSE IfChain(view.componentsImage, {"color", "greyscale"}, fill)
          [] a = "components.svg" ->
                IfChain(view.componentsSvg, {"color", "greyscale", "outline"}, fill)
          [] a = "svg" ->
                IfChain(view.svg, {"color", "greyscale", "outline", "color-outline",
                                   "greyscale-outline"}, fill)

\* the await of the greyscale batch ends; steps 8-10: the outlines, the
\* five merges and the returned object
ResumeAfterGrey ==
    /\ pc = "awaitGrey"
    /\ batches["grey"].state # "pending"
    /\ IF batches["grey"].state = "rejected"
       THEN /\ Reject(batches["grey"].reason)
            /\ UNCHANGED locals
       ELSE \E colorSvgs \in {locals["separatedColorSvgs"]},
               greySvgs \in {Values(batches["grey"])} :
            \E outlinedSvgs \in {createSvgOutline(colorSvgs)} :
            \E env \in {   ("separatedGreyscaleSvgs" :> greySvgs)
                        @@ ("separatedOutlinedSvgs" :> outlinedSvgs)
                        @@ ("mergedColorSvg" :> mergeSvgs(colorSvgs))
                        @@ ("mergedGreyscaleSvg" :> mergeSvgs(greySvgs))
                        @@ ("mergedOutlinedSvg" :> mergeSvgs(outlinedSvgs))
                        @@ ("mergedGreyscaleOutlinedSvg" :>
                               mergeSvgs(greySvgs \o outlinedSvgs))
                        @@ ("mergedColorOutlinedSvg" :>
                               mergeSvgs(colorSvgs \o outlinedSvgs))
                        @@ locals} :
                /\ locals' = env
                /\ pc' = "resolved"
                /\ outcome' = Fulfilled(ResultView(env))
    /\ UNCHANGED <<variant, bitmapVars, classifyVars, svgVars, answer, file, calls, batches>>

\* an accessor that traces the colour layers again at every call
CallAccessor_Recomputes ==
    \E a \in Accessors, arg \in Args :
        /\ pc = "resolved"
        /\ answer.accessor = "none" \/ (answer.accessor = a /\ answer.arg = arg)
        /\ answer' = [accessor |-> a, arg |-> arg,
                      result |-> Access(variant, outcome.value, a, arg),
                      again |-> answer.accessor = a /\ answer.arg = arg]
        /\ IssueBatch("color", locals["separatedColorImages"], locals["colorPallet"])
        /\ UNCHANGED <<variant, bitmapVars, classifyVars, svgVars, file, pc, locals,
                       outcome>>

\* the caller calls an accessor of the returned object, and may repeat the
\* call; no accessor reads what an earlier call answered
CallAccessor ==
    \E a \in Accessors, arg \in Args :
        /\ pc = "resolved"
        /\ answer.accessor = "none" \/ (answer.accessor = a /\ answer.arg = arg)
        /\ answer' = [accessor |-> a, arg |-> arg,
                      result |-> Access(variant, outcome.value, a, arg),
                      again |-> answer.accessor = a /\ answer.arg = arg]
        /\ UNCHANGED <<variant, bitmapVars, classifyVars, svgVars, file, pc, locals,
                       calls, batches, outcome>>

Next ==
    \/ Decode
    \/ Prepare
    \/ IssueColorTraces
    \/ TraceSucceeds
    \/ TraceFails
    \/ ResumeAfterColor
    \/ ResumeAfterGrey
    \/ CallAccessor

Spec == InitRun /\ [][Next]_vars

\* the places the async function can be at: before a step, or awaiting a batch
Suspended == {"start", "decoded", "separated", "awaitColor", "awaitGrey"}
Positions == Suspended \cup {"resolved", "rejected"}

\* the promise the function awaits at a place has settled
Settled(at) ==
    CASE at = "awaitColor" -> batches["color"].state # "pending"
      [] at = "awaitGrey" -> batches["grey"].state # "pending"
      [] OTHER -> TRUE

\* the function goes on from a place: the step of Decode, Prepare,
\* IssueColorTraces, ResumeAfterColor or ResumeAfterGrey taken there
Continue(at) == pc = at /\ Settled(at) /\ pc' \in Positions \ {at}

\* the job queue runs every continuation of the async function once the
\* promise it awaits has settled; whether the tracer calls back is left open
FairSpec == Spec /\ \A at \in Suspended : WF_pc(Continue(at))

(***************************************************************************)
(* The trace batches of a run.                                             *)
(***************************************************************************)
\* the arguments and the result of the traceImagesToSvgs call of batch b
BatchImages(b) ==
    IF b = "color" THEN locals["separatedColorImages"]
    ELSE locals["separatedGreyscaleImages"]

BatchPalette(b) ==
    IF b = "color" THEN locals["colorPallet"] ELSE locals["greyscalePalette"]

BatchResult(b) ==
    IF b = "color" THEN "separatedColorSvgs" ELSE "separatedGreyscaleSvgs"

MergedNames ==
    {"mergedColorSvg", "mergedGreyscaleSvg", "mergedOutlinedSvg",
     "mergedGreyscaleOutlinedSvg", "mergedColorOutlinedSvg"}

\* the merged documents computed from the fragments of batch b
MergedFrom(b) ==
    IF b = "color" THEN MergedNames \ {"mergedGreyscaleSvg"}
    ELSE {"mergedGreyscaleSvg", "mergedGreyscaleOutlinedSvg"}

\* C7: whatever the order in which the tracer called back, a fulfilled batch
\* of N trace calls holds N fragments, as many as masks and palette colours,
\* its i-th fragment is the one traced from mask i with the fill palette[i],
\* and that is the sequence the run binds as the batch's fragments.
C7_FragmentsAreIndexAligned ==
    \A b \in DOMAIN batches :
        batches[b].state = "fulfilled" =>
            /\ Len(batches[b].values) = Len(BatchImages(b))
            /\ Len(batches[b].values) = Len(BatchPalette(b))
            /\ \A i \in 1..Len(batches[b].values) :
                   Values(batches[b])[i] =
                       TraceSvg(BufferOfDataUri(BatchImages(b)[i]), BatchPalette(b)[i])
            /\ Bound(BatchResult(b)) => locals[BatchResult(b)] = Values(batches[b])

\* a colour batch of two calls with different fills, whose second call
\* called back before the first, fulfilled and bound
C7_Witness ==
    /\ "color" \in DOMAIN batches
    /\ batches["color"].state = "fulfilled"
    /\ Len(batches["color"].values) = 2
    /\ locals["colorPallet"][1] # locals["colorPallet"][2]
    /\ calls[<<"color", 2>>].order < calls[<<"color", 1>>].order
    /\ Bound("separatedColorSvgs")

\* C8: once a trace call of a batch has failed, the batch is rejected, its
\* fragment sequence is never bound and no merged document is computed from
\* its fragments, whatever its sibling calls did.
C8_FailedCallFailsBatch ==
    \A c \in DOMAIN calls :
        calls[c].state = "err" =>
            /\ batches[c[1]].state = "rejected"
            /\ ~Bound(BatchResult(c[1]))
            /\ \A n \in MergedFrom(c[1]) : ~Bound(n)

\* the first call of a colour batch failed, its sibling succeeded, and the
\* run has ended
C8_Witness ==
    /\ <<"color", 2>> \in DOMAIN calls
    /\ calls[<<"color", 1>>].state = "err"
    /\ calls[<<"color", 2>>].state = "ok"
    /\ pc = "rejected"

\* C9 (as stated): when a run has ended with one of the two batches failed,
\* the other batch was issued and its merged document was produced.
C9_BatchesAreIndependent ==
    pc \in {"rejected", "resolved"} =>
        /\ ("color" \in DOMAIN batches /\ batches["color"].state = "rejected") =>
               "grey" \in DOMAIN batches /\ Bound("mergedGreyscaleSvg")
        /\ ("grey" \in DOMAIN batches /\ batches["grey"].state = "rejected") =>
               Bound("mergedColorSvg")

\* C9 (amended): the greyscale batch is issued only after the colour batch
\* has fulfilled, and while either batch is rejected no merged document is
\* computed at all.
C9_GreyBatchFollowsColourBatch ==
    /\ "grey" \in DOMAIN batches => batches["color"].state = "fulfilled"
    /\ (\E b \in DOMAIN batches : batches[b].state = "rejected") =>
           \A n \in MergedNames : ~Bound(n)

\* the colour batch failed and the run ended with greyscale layers that
\* were never handed to the tracer
C9_Witness ==
    /\ pc = "rejected"
    /\ "color" \in DOMAIN batches
    /\ batches["color"].state = "rejected"
    /\ "grey" \notin DOMAIN batches
    /\ locals["separatedGreyscaleImages"] # <<>>

\* C10: when createBuffer, the decoder or any trace call has failed, the
\* invocation is never fulfilled with a result object, and once it has
\* ended it has rejected.
C10_FailureRejectsInvocation ==
    (\/ createBuffer(file).status # "ok"
     \/ createImage(file.bytes).status # "ok"
     \/ \E c \in DOMAIN calls : calls[c].state = "err")
    => /\ outcome.status # "fulfilled"
       /\ pc # "resolved"
       /\ pc = "rejected" => outcome.status = "rejected"

\* a greyscale trace call failed after the images, the palettes and the
\* colour fragments had been computed, and the run rejected
C10_Witness ==
    /\ pc = "rejected"
    /\ outcome.status = "rejected"
    /\ Bound("colorImage")
    /\ Bound("separatedColorSvgs")
    /\ \E c \in DOMAIN calls : c[1] = "grey" /\ calls[c].state = "err"

\* C14: during a run the decoded source bitmap is never mutated: the image
\* vectori holds keeps the decoded pixels, and the greyscale image is made
\* from them.
C14_SourceBitmapIsNeverMutated ==
    /\ Bound("image") => locals["image"] = DecodedImage(file.bytes)
    /\ Bound("greyscaleImage") =>
           locals["greyscaleImage"]
               = DataUri(Png(JimpGreyscale(DecodedImage(file.bytes))))

\* C19: whatever the documented source of the input (path, Buffer, Blob),
\* a run that ended before an image was decoded ended in the decoder, not in
\* the conversion of the input to a buffer.
C19_EverySourceReachesDecode ==
    (pc = "rejected" /\ ~Bound("image")) => outcome.value = <<"DecodeError">>

\* the first index of palette whose distance to color is minimal
FirstNearest ==
    CHOOSE i \in 1..Len(palette) :
        /\ \A j \in 1..Len(palette) :
               computeEuclideanDistance(palette[i], color)
                   <= computeEuclideanDistance(palette[j], color)
        /\ \A j \in 1..(i - 1) :
               computeEuclideanDistance(palette[j], color)
                   > computeEuclideanDistance(palette[i], color)

\* C20: among equally near palette entries findClosestColor returns the one
\* that comes first in the palette.
C20_TieGoesToFirstEntry ==
    (closest.status = "ok" /\ Len(palette) > 0) =>
        closest.value = palette[FirstNearest]

\* two different entries at the same, minimal distance; the first returned
C20_Witness ==
    /\ closest.status = "ok"
    /\ Len(palette) = 2
    /\ palette[1] # palette[2]
    /\ computeEuclideanDistance(palette[1], color)
           = computeEuclideanDistance(palette[2], color)
    /\ closest.value = palette[1]

\* C15: once the object is returned, an accessor call issues no trace,
\* separation or merge and changes none of the stored results, and a call
\* repeated with the same accessor and fill returns the same value.
C15_AccessorsArePureLookups ==
    [][pc = "resolved" =>
          /\ UNCHANGED <<locals, calls, batches, outcome, pc>>
          /\ answer'.again => answer'.result = answer.result]_vars

\* svg({ fill: "color" }) called a second time, answering the merged colour
\* document computed before the object was returned
C15_Witness ==
    /\ pc = "resolved"
    /\ answer.again
    /\ answer.accessor = "svg"
    /\ answer.arg = "color"
    /\ answer.result = Returned(locals["mergedColorSvg"])
    /\ \A c \in DOMAIN calls : calls[c].state = "ok"

\* C18: palette.popular returns, for the fill "greyscale" as for "color", a
\* reduced palette of at most the target colour count of entries.
C18_PopularPaletteIsReduced ==
    pc = "resolved" =>
        \A fill \in {"color", "greyscale"} :
            /\ Access(variant, outcome.value, "palette.popular", fill).status = "ok"
            /\ Len(Access(variant, outcome.value, "palette.popular", fill).value)
                   <= colorCount

\* the entries of the clustered palette are pairwise distinct
PairwiseDistinct(P) == \A i, j \in 1..Len(P) : P[i] = P[j] => i = j

\* C21: in a run, for a non-empty and pairwise distinct clustered palette,
\* every pixel of the bitmap handed to separateColors equals exactly one
\* palette entry and is kept by the mask of that entry (it is white in no
\* mask merely for matching no entry), in every variant of the pipeline.
C21_SeparationRunsOnQuantizedBitmap ==
    (Bound("separatedColorImages")
        /\ Len(locals["colorPaletteValues"]) > 0
        /\ PairwiseDistinct(locals["colorPaletteValues"]))
    => \A k \in 1..Len(locals["image"].data) :
          \E i \in 1..Len(locals["colorPaletteValues"]) :
              /\ locals["image"].data[k] = locals["colorPaletteValues"][i]
              /\ Decoded(locals["separatedColorImages"][i]).data[k]
                     = locals["colorPaletteValues"][i]

\* C21 restricted to the two variants that quantize the image in place
C21_HoldsWhereQuantizedInPlace ==
    variant # "lib" => C21_SeparationRunsOnQuantizedBitmap

\* C22: in the mask separateColors builds for palette entry e, a pixel keeps
\* its value if and only if it equals e in all three channels, every other
\* pixel is white, and the bitmap passed in is as it was.
C22_MaskKeepsExactlyTheEntry ==
    op = "separateColorsOnly" =>
        /\ Len(layers.value) = Len(targets)
        /\ \A i \in 1..Len(targets) :
              /\ Decoded(layers.value[i]).width = bitmap.width
              /\ Decoded(layers.value[i]).height = bitmap.height
              /\ \A k \in 1..Len(bitmap.data) :
                    Decoded(layers.value[i]).data[k]
                        = IF bitmap.data[k] = targets[i] THEN bitmap.data[k] ELSE White

\* two entries, each the colour of one pixel: the second mask keeps the
\* pixel the first mask has whitened
C22_Witness ==
    /\ op = "separateColorsOnly"
    /\ Len(targets) = 2
    /\ Len(bitmap.data) = 2
    /\ bitmap.data[1] = targets[1]
    /\ bitmap.data[2] = targets[2]
    /\ targets[1] # targets[2]
    /\ targets[2] # White
    /\ Decoded(layers.value[1]).data = <<targets[1], White>>
    /\ Decoded(layers.value[2]).data = <<White, targets[2]>>

\* the index in the root tag of svg of the attribute called name, 0 when
\* the root tag does not declare it
RECURSIVE DeclaredAt(_, _, _)
DeclaredAt(svg, name, i) ==
    IF i > Len(svg.root) THEN 0
    ELSE IF svg.root[i].n = name THEN i
    ELSE DeclaredAt(svg, name, i + 1)

\* the frame of a fragment by the stated precedence: its declared viewBox,
\* else (0, 0) with its declared width and height, else the zero frame
DeclaredFrame(svg) ==
    LET vb == DeclaredAt(svg, "viewBox", 1)
        w == DeclaredAt(svg, "width", 1)
        h == DeclaredAt(svg, "height", 1)
    IN  IF vb # 0
        THEN LET parts == Split(svg.root[vb].v, " ")
             IN  [x |-> ParsedAt(parts, 1), y |-> ParsedAt(parts, 2),
                  w |-> ParsedAt(parts, 3), h |-> ParsedAt(parts, 4)]
        ELSE IF w # 0 /\ h # 0
        THEN [x |-> Num(0), y |-> Num(0),
              w |-> parseFloat(svg.root[w].v), h |-> parseFloat(svg.root[h].v)]
        ELSE ZeroFrame

\* C23: mergeSvgs takes as the frame of each fragment its declared viewBox,
\* otherwise (0, 0) with its declared width and height when both are
\* declared, otherwise the zero frame, and the merge returns whatever frame
\* metadata the fragments lack.
C23_FrameByPrecedence ==
    merged # NotCalled =>
        /\ merged.status = "ok"
        /\ \A i \in 1..Len(svgs) : ContentFrame(svgs[i]) = DeclaredFrame(svgs[i])

\* C23 for fragments without a stroke-width attribute
C23_HoldsWithoutStrokeWidth ==
    (\A i \in 1..Len(svgs) : \A k \in 1..Len(Text(svgs[i])) :
         Text(svgs[i])[k].n # "stroke-width")
    => C23_FrameByPrecedence

\* the tokens between the root tags of the fragments, from the first
\* fragment to the last
RECURSIVE BodiesInOrder(_, _)
BodiesInOrder(F, n) ==
    IF n = 0 THEN <<>> ELSE BodiesInOrder(F, n - 1) \o F[n].body

IsMarkup(tok) == tok.n # "\n"

\* C24: the content of mergeSvgs(F), line breaks aside, is the inner content
\* of the fragments of F without their root tags, in the order of F: each
\* fragment's content once, none dropped or moved.
C24_ContentIsFragmentsInOrder ==
    merged # NotCalled =>
        /\ SelectSeq(merged.value.body, IsMarkup) = BodiesInOrder(svgs, Len(svgs))
        /\ \A i \in 1..Len(merged.value.body) :
              merged.value.body[i].n \notin {"xmlns", "viewBox", "width", "height"}

\* three fragments of different content merged
C24_Witness ==
    /\ merged # NotCalled
    /\ Len(svgs) = 3
    /\ svgs[1].body # svgs[2].body
    /\ svgs[2].body # svgs[3].body
    /\ svgs[1].body # svgs[3].body
    /\ SelectSeq(merged.value.body, IsMarkup)
           = svgs[1].body \o svgs[2].body \o svgs[3].body

IsPaint(tok) == tok.n \in {"fill", "stroke", "stroke-width"}

\* every fill of the tokens is none, and every stroke is black and followed
\* by a stroke-width of 1
OutlinePaint(toks) ==
    \A k \in 1..Len(toks) :
        /\ toks[k].n = "fill" => toks[k].v = <<"none">>
        /\ toks[k].n = "stroke" =>
              /\ toks[k].v = <<"black">>
              /\ k < Len(toks)
              /\ toks[k + 1] = Tok("stroke-width", <<"1">>)

IsNotPaint(tok) == ~IsPaint(tok)

\* C25: in the result of createSvgOutline every fill is none and every
\* stroke is a black stroke of width 1, and everything else (the root
\* attributes with the frame, the path data, the elements and their order)
\* is as in the input.
C25_OutlineChangesPaintOnly ==
    outlined # NotCalled =>
        /\ Len(outlined.value) = Len(svgs)
        /\ \A i \in 1..Len(svgs) :
              /\ OutlinePaint(Text(outlined.value[i]))
              /\ outlined.value[i].root = svgs[i].root
              /\ DeclaredFrame(outlined.value[i]) = DeclaredFrame(svgs[i])
              /\ SelectSeq(outlined.value[i].body, IsNotPaint)
                     = SelectSeq(svgs[i].body, IsNotPaint)
              /\ Len(SelectSeq(outlined.value[i].body, IsPaint))
                     >= Len(SelectSeq(svgs[i].body, IsPaint))

\* a traced fragment with fill "#ff0000" and stroke "none" outlined
C25_Witness ==
    /\ outlined # NotCalled
    /\ Len(svgs) >= 1
    /\ svgs[1] = Traced
    /\ \E k \in 1..Len(svgs[1].body) : svgs[1].body[k] = Tok("stroke", <<"none">>)
    /\ \E k \in 1..Len(outlined.value[1].body) :
          outlined.value[1].body[k] = Tok("stroke", <<"black">>)
    /\ outlined.value[1].body # svgs[1].body

\* the document svg({ fill }) of the returned object answers
SvgOf(fill) == Access(variant, outcome.value, "svg", fill)

\* C26: of the returned object, svg answers for "color" the merge of the
\* colour fragments, for "greyscale" the merge of the greyscale fragments,
\* for "outline" the merge of the outlined colour fragments, for
\* "color-outline" the merge of the colour fragments followed by the
\* outlined colour fragments, and for "greyscale-outline" the merge of the
\* greyscale fragments followed by the outlined colour fragments.
C26_MergedDocumentsByFillMode ==
    pc = "resolved" =>
        \E colour \in {Values(batches["color"])}, grey \in {Values(batches["grey"])} :
        \E outline \in {createSvgOutline(colour)} :
            /\ SvgOf("color") = Returned(mergeSvgs(colour))
            /\ SvgOf("{}") = Returned(mergeSvgs(colour))
            /\ SvgOf("greyscale") = Returned(mergeSvgs(grey))
            /\ SvgOf("outline") = Returned(mergeSvgs(outline))
            /\ SvgOf("color-outline") = Returned(mergeSvgs(colour \o outline))
            /\ SvgOf("greyscale-outline") = Returned(mergeSvgs(grey \o outline))

\* svg({ fill: "greyscale-outline" }) was called on a run of two colour
\* layers, and its answer differs from the colour-outline document
C26_Witness ==
    /\ pc = "resolved"
    /\ answer.accessor = "svg"
    /\ answer.arg = "greyscale-outline"
    /\ Len(Values(batches["color"])) = 2
    /\ Len(Values(batches["grey"])) >= 1
    /\ answer.result = Returned(locals["mergedGreyscaleOutlinedSvg"])
    /\ answer.result # SvgOf("color-outline")

Pending(c) == calls[c].state = "pending"

AllCalledBack == \A c \in DOMAIN calls : ~Pending(c)

Ended == pc \in {"resolved", "rejected"}

\* C27 (as stated): a trace call that has not called back keeps its batch
\* from completing and the invocation from ending.
C27_PendingCallBlocksBatch ==
    \A c \in DOMAIN calls :
        Pending(c) => batches[c[1]].state = "pending" /\ ~Ended

\* C27 (amended): while a trace call has not called back, its batch is not
\* fulfilled and the invocation has returned no object (the batch and the
\* invocation may have rejected, a sibling call having failed); and if
\* every issued trace call eventually calls back, the invocation eventually
\* resolves or rejects.
C27_PendingCallWithholdsResult ==
    /\ [](\A c \in DOMAIN calls :
             Pending(c) => /\ batches[c[1]].state # "fulfilled"
                           /\ pc # "resolved"
                           /\ outcome.status # "fulfilled")
    /\ ([]<>AllCalledBack => <>Ended)

\* the second call of the colour batch failed and the run rejected while
\* the first call has still not called back
C27_Witness ==
    /\ <<"color", 2>> \in DOMAIN calls
    /\ Pending(<<"color", 1>>)
    /\ calls[<<"color", 2>>].state = "err"
    /\ batches["color"].state = "rejected"
    /\ pc = "rejected"

\* the trace calls of batch b
CallsOf(b) == {c \in DOMAIN calls : c[1] = b}

\* C28: within one run, a trace call exists only once the masks of both
\* separations have been produced; the greyscale batch exists only once
\* every colour trace call has called back with an svg; and a merged
\* document exists only once both batches are fulfilled.
C28_StagesAreOrdered ==
    /\ (calls # <<>> \/ batches # <<>>) =>
           /\ Bound("separatedColorImages")
           /\ Bound("separatedGreyscaleImages")
           /\ Len(locals["separatedColorImages"]) = Len(locals["colorPaletteValues"])
           /\ Len(locals["separatedGreyscaleImages"]) = Len(locals["greyscalePalette"])
    /\ (CallsOf("grey") # {} \/ "grey" \in DOMAIN batches) =>
           /\ Cardinality(CallsOf("color")) = Len(locals["separatedColorImages"])
           /\ \A c \in CallsOf("color") : calls[c].state = "ok"
    /\ (\E n \in MergedNames : Bound(n)) =>
           /\ "grey" \in DOMAIN batches
           /\ \A b \in {"color", "grey"} : batches[b].state = "fulfilled"
           /\ \A c \in DOMAIN calls : calls[c].state = "ok"

\* two colour calls have called back with an svg, the greyscale calls are
\* issued and pending, and nothing is merged yet
C28_Witness ==
    /\ Cardinality(CallsOf("color")) = 2
    /\ \A c \in CallsOf("color") : calls[c].state = "ok"
    /\ CallsOf("grey") # {}
    /\ \A c \in CallsOf("grey") : Pending(c)
    /\ \A n \in MergedNames : ~Bound(n)

\* the trace calls of batch b that called back with an error
FailedOf(b) == {c \in CallsOf(b) : calls[c].state = "err"}

\* C29: a rejected batch carries the error of the call of the batch that
\* failed first in time, whatever its index, and the run that ended on it
\* rejects with that error; the other calls stay free to call back, and no
\* later callback changes the batch or the outcome of the run.
C29_FirstFailureInTimeWins ==
    /\ [](\A b \in DOMAIN batches :
             batches[b].state = "rejected" =>
                 /\ \E c \in FailedOf(b) :
                       /\ batches[b].reason = <<"TracerError", c[1], c[2]>>
                       /\ \A d \in FailedOf(b) : calls[c].order <= calls[d].order
                 /\ pc = "rejected" => outcome = Rejected(batches[b].reason))
    /\ [][\A b \in DOMAIN batches :
             batches[b].state = "rejected" =>
                 /\ b \in DOMAIN batches'
                 /\ batches'[b] = batches[b]
                 /\ outcome.status = "rejected" => outcome' = outcome]_vars

\* both calls of the colour batch failed, the second one first: the batch
\* and the run carry the error of the second call
C29_Witness ==
    /\ Cardinality(CallsOf("color")) = 2
    /\ calls[<<"color", 1>>].state = "err"
    /\ calls[<<"color", 2>>].state = "err"
    /\ calls[<<"color", 2>>].order < calls[<<"color", 1>>].order
    /\ batches["color"].reason = <<"TracerError", "color", 2>>
    /\ outcome = Rejected(<<"TracerError", "color", 2>>)

\* the root tag of svg declares a viewBox of four integers separated by
\* single spaces
DeclaresViewBox(svg) ==
    LET vb == DeclaredAt(svg, "viewBox", 1)
    IN  /\ vb # 0
        /\ Len(Split(svg.root[vb].v, " ")) = 4
        /\ \A k \in 1..4 : IsInteger(Split(svg.root[vb].v, " ")[k])

\* the viewBox, width and height a merged document declares
Header(doc) ==
    [n \in {"viewBox", "width", "height"} |-> doc.root[DeclaredAt(doc, n, 1)].v]

\* F in the order p
Permuted(F, p) == [i \in 1..Len(F) |-> F[p[i]]]

====
